---- MODULE Spec2Model ----
(***************************************************************************)
(* A model of go-github-pr-commenter: the Commenter session               *)
(* (src/unnamed/part_000) and its GitHub connector                        *)
(* (src/commenter/connector.go).  The pull request held by the provider   *)
(* is part of the state; every remote call is one step with an outcome    *)
(* chosen by the provider.                                                 *)
(***************************************************************************)
EXTENDS Integers, Sequences, FiniteSets, TLC

\* ------------------------------------------------------------------ bounds
\* write operations invoked in one behaviour
MaxOps == 2

\* ------------------------------------------------------------- constants
\* a variant with one more attempt
githubAbuseErrorRetries_OneMore == 6 + 1

githubAbuseErrorRetries == 6

Callers == {1}
FileNames == {"a.go", "b.go"}
Bodies == {"x", "y"}
Lines == 1..3

\* nil pointers
NoId == 0
NoLine == 0
NoResp == 0

\* ---------------------------------------------------------------- errors
Nil == [type |-> "nil"]

\* the error of a provider response with a non-2xx status
ErrorResponse(status) == [type |-> "ErrorResponse", status |-> status]

\* a transport error: no response at all
TransportError == [type |-> "TransportError"]

\* the text err.Error() yields
ErrorText(err) ==
    CASE err.type = "ErrorResponse" -> <<"ErrorResponse", err.status>>
      [] err.type = "TransportError" -> <<"TransportError">>
      [] err.type = "errorString" -> err.text
      [] err.type = "wrapError" -> err.text
      [] err.type = "AbuseRateLimitError" -> <<"AbuseRateLimitError">>
      [] err.type = "CommentNotValidError" -> <<"CommentNotValidError", err.file, err.line>>
      [] OTHER -> <<>>

\* fmt.Errorf(prefix + ": %v", err): a new error holding only the text
ErrorfV(prefix, err) ==
    [type |-> "errorString", text |-> <<prefix>> \o ErrorText(err)]

\* fmt.Errorf(prefix + ": %w", err): a new error that wraps err
ErrorfW(prefix, err) ==
    [type |-> "wrapError", text |-> <<prefix>> \o ErrorText(err), unwrap |-> err]

newCommentNotValidError(file, line) ==
    [type |-> "CommentNotValidError", file |-> file, line |-> line]

newAbuseRateLimitError(backoffInSeconds) ==
    [type |-> "AbuseRateLimitError", seconds |-> backoffInSeconds]

\* the zero value of AbuseRateLimitError (var abuseError AbuseRateLimitError)
ZeroAbuseError == [type |-> "AbuseRateLimitError", seconds |-> 0]

\* ------------------------------------------------ the pull request's files
\* A github.CommitFile.  Patch is the patch text, line by line; ContentsURL
\* is the values of the "ref=" parameters of the URL, in order.
CommitFile(name, status, patch, changes, url) ==
    [Filename |-> name, Status |-> status, Patch |-> patch,
     Changes |-> changes, ContentsURL |-> url]

\* a patch line "@@ -a,b +start,count @@"
HunkHeader(start, count) == [kind |-> "hunk", start |-> start, count |-> count]

\* a patch line "@@ -a +start @@", the count of a one-line hunk left out
HunkHeaderNoCount(start) == [kind |-> "hunk1", start |-> start]

\* any other patch line
TextLine == [kind |-> "text"]

\* a.go: the first hunk's new side starts at line 2 and spans 2 lines;
\* b.go: deleted
FilesGood ==
    << CommitFile("a.go", "modified",
                  <<HunkHeader(2, 2), TextLine, TextLine, HunkHeader(7, 1), TextLine>>,
                  3, <<"sha1">>),
       CommitFile("b.go", "deleted", <<>>, 3, <<"sha1">>) >>

\* c.go has neither a hunk header nor a changed line; d.go has no ref
FilesBad ==
    << CommitFile("a.go", "modified", <<HunkHeader(2, 2), TextLine, TextLine>>,
                  2, <<"sha1">>),
       CommitFile("c.go", "modified", <<>>, 0, <<"sha1">>),
       CommitFile("d.go", "renamed", <<>>, 1, <<>>) >>

\* a.go has no hunk header and one changed line
FilesRenamed ==
    << CommitFile("a.go", "renamed", <<>>, 1, <<"sha2">>) >>

PRFileSets == {FilesGood, FilesRenamed, FilesBad}

\* patchRegex.FindAllStringSubmatch(file.GetPatch(), -1): the pattern is
\* anchored at the start of the text and does not cross a line end, so it
\* matches at most once, a first line that is a hunk header with a count
patchRegexGroups(file) ==
    IF Len(file.Patch) >= 1 /\ file.Patch[1].kind = "hunk"
    THEN << <<file.Patch[1].start, file.Patch[1].count>> >>
    ELSE <<>>

\* commitRefRegex.FindAllStringSubmatch(file.GetContentsURL(), -1): the
\* greedy prefix leaves the last "ref=" of the URL to the group
commitRefRegexGroups(file) ==
    IF Len(file.ContentsURL) >= 1
    THEN << file.ContentsURL[Len(file.ContentsURL)] >>
    ELSE <<>>

\* a variant that takes the count for the range's end
getCommitInfo_EndIsCount(file) ==
    LET groups == patchRegexGroups(file)
        shaGroups == commitRefRegexGroups(file)
        hunkStart == IF Len(groups) < 1 THEN 1 ELSE groups[1][1]
        hunkEnd == IF Len(groups) < 1 THEN 1 ELSE groups[1][2]
    IN  IF Len(groups) < 1 /\ ~(file.Changes >= 1)
        THEN [err |-> <<"the patch details could not be resolved">>]
        ELSE IF Len(shaGroups) < 1
        THEN [err |-> <<"the sha details could not be resolved">>]
        ELSE [err |-> <<>>,
              info |-> [FileName |-> file.Filename,
                        hunkStart |-> hunkStart,
                        hunkEnd |-> hunkEnd,
                        sha |-> shaGroups[1]]]

\* getCommitInfo: [err, info]
getCommitInfo(file) ==
    LET groups == patchRegexGroups(file)
        shaGroups == commitRefRegexGroups(file)
        hunkStart == IF Len(groups) < 1 THEN 1 ELSE groups[1][1]
        hunkEnd == IF Len(groups) < 1 THEN 1 ELSE groups[1][2]
    IN  IF Len(groups) < 1 /\ ~(file.Changes >= 1)
        THEN [err |-> <<"the patch details could not be resolved">>]
        ELSE IF Len(shaGroups) < 1
        THEN [err |-> <<"the sha details could not be resolved">>]
        ELSE [err |-> <<>>,
              info |-> [FileName |-> file.Filename,
                        hunkStart |-> hunkStart,
                        hunkEnd |-> hunkStart + (hunkEnd - 1),
                        sha |-> shaGroups[1]]]

\* getFilesForPr: the files whose status is not "deleted"
getFilesForPr(files) == SelectSeq(files, LAMBDA f : f.Status # "deleted")

\* a variant that stops at the first file that fails
RECURSIVE commitFileInfoLoop_StopAtFirst(_, _, _, _)
commitFileInfoLoop_StopAtFirst(prFiles, k, errs, commitFileInfos) ==
    IF k > Len(prFiles)
    THEN [errs |-> errs, infos |-> commitFileInfos]
    ELSE LET r == getCommitInfo(prFiles[k])
         IN  IF r.err # <<>>
             THEN [errs |-> Append(errs, r.err), infos |-> commitFileInfos]
             ELSE commitFileInfoLoop_StopAtFirst(prFiles, k + 1, errs,
                                                 Append(commitFileInfos, r.info))

RECURSIVE commitFileInfoLoop(_, _, _, _)
commitFileInfoLoop(prFiles, k, errs, commitFileInfos) ==
    IF k > Len(prFiles)
    THEN [errs |-> errs, infos |-> commitFileInfos]
    ELSE LET r == getCommitInfo(prFiles[k])
         IN  IF r.err # <<>>
             THEN commitFileInfoLoop(prFiles, k + 1, Append(errs, r.err), commitFileInfos)
             ELSE commitFileInfoLoop(prFiles, k + 1, errs, Append(commitFileInfos, r.info))

\* getCommitFileInfo: [err, infos]; err lists every file's message
getCommitFileInfo(files) ==
    LET r == commitFileInfoLoop(getFilesForPr(files), 1, <<>>, <<>>)
    IN  IF Len(r.errs) > 0
        THEN [err |-> [type |-> "errorString",
                       text |-> <<"there were errors processing the PR files">> \o r.errs],
              infos |-> <<>>]
        ELSE [err |-> Nil, infos |-> r.infos]

\* getExistingComments: one existingComment per listed comment, in order
getExistingComments(comments) ==
    [k \in 1..Len(comments) |->
        [filename |-> comments[k].Path, comment |-> comments[k].Body,
         commentId |-> comments[k].ID]]

\* ------------------------------------------------------------ the session
\* a variant that forgets the range's upper end
checkCommentRelevant_NoUpperEnd(files, filename, line) ==
    \E k \in 1..Len(files) :
        /\ files[k].FileName = filename
        /\ line >= files[k].hunkStart

\* a variant that takes a line in the range of any file
checkCommentRelevant_AnyFile(files, filename, line) ==
    \E k \in 1..Len(files) :
        /\ line >= files[k].hunkStart
        /\ line <= files[k].hunkEnd

checkCommentRelevant(files, filename, line) ==
    \E k \in 1..Len(files) :
        /\ files[k].FileName = filename
        /\ line >= files[k].hunkStart
        /\ line <= files[k].hunkEnd

\* getFileInfo: the first file info holding the line, or an error
getFileInfo(files, file, line) ==
    LET hits == {k \in 1..Len(files) :
                    /\ files[k].FileName = file
                    /\ line >= files[k].hunkStart
                    /\ line <= files[k].hunkEnd}
    IN  IF hits = {}
        THEN [err |-> [type |-> "errorString",
                       text |-> <<"file not found, shouldn't have got to here">>]]
        ELSE [err |-> Nil,
              info |-> files[CHOOSE k \in hits : \A j \in hits : k <= j]]

calculatePosition(info, line) == line - info.hunkStart + 1

buildComment(file, comment, line, info) ==
    [Line |-> line, Path |-> file, CommitID |-> info.sha, Body |-> comment,
     Position |-> calculatePosition(info, line), StartLine |-> NoLine]

\* the loop of writeCommentIfRequired: every iteration assigns commentId
RECURSIVE commentIdLoop(_, _, _, _)
commentIdLoop(existingComments, prComment, k, commentId) ==
    IF k > Len(existingComments)
    THEN commentId
    ELSE commentIdLoop(existingComments, prComment, k + 1,
            IF /\ existingComments[k].filename = prComment.Path
               /\ existingComments[k].comment = prComment.Body
            THEN existingComments[k].commentId
            ELSE NoId)

selectCommentId(existingComments, prComment) ==
    commentIdLoop(existingComments, prComment, 1, NoId)

\* WriteLineComment up to the call of writeCommentIfRequired: [err, block]
lineComment(files, file, comment, line) ==
    IF ~checkCommentRelevant(files, file, line)
    THEN [err |-> newCommentNotValidError(file, line)]
    ELSE LET r == getFileInfo(files, file, line)
         IN  IF r.err # Nil
             THEN [err |-> r.err]
             ELSE [err |-> Nil, block |-> buildComment(file, comment, line, r.info)]

\* a variant that builds a span even when both lines are the same
multiLineComment_AlwaysSpan(files, file, comment, startLine, endLine) ==
    IF \/ ~checkCommentRelevant(files, file, startLine)
       \/ ~checkCommentRelevant(files, file, endLine)
    THEN [err |-> newCommentNotValidError(file, startLine)]
    ELSE LET r == getFileInfo(files, file, endLine)
         IN  IF r.err # Nil
             THEN [err |-> r.err]
             ELSE [err |-> Nil,
                   block |-> [buildComment(file, comment, endLine, r.info)
                                 EXCEPT !.StartLine = startLine]]

\* WriteMultiLineComment up to the call of writeCommentIfRequired: [err, block]
multiLineComment(files, file, comment, startLine, endLine) ==
    IF \/ ~checkCommentRelevant(files, file, startLine)
       \/ ~checkCommentRelevant(files, file, endLine)
    THEN [err |-> newCommentNotValidError(file, startLine)]
    ELSE IF startLine = endLine
    THEN lineComment(files, file, comment, endLine)
    ELSE LET r == getFileInfo(files, file, endLine)
         IN  IF r.err # Nil
             THEN [err |-> r.err]
             ELSE [err |-> Nil,
                   block |-> [buildComment(file, comment, endLine, r.info)
                                 EXCEPT !.StartLine = startLine]]

\* ------------------------------------------------------ the retry scheduler
\* a variant with a linear backoff
retrySeconds_Linear(i) == i

\* retrySeconds := i * i
retrySeconds(i) == i * i

\* a variant that also retries a call that got no response
isAbuseResponse_OrNoResponse(r) == r.resp = NoResp \/ r.resp = 422

\* resp != nil && resp.StatusCode == 422
isAbuseResponse(r) == r.resp # NoResp /\ r.resp = 422

\* a variant that hands the callback's error through
fatalReturn_Unchanged(err) == err

\* return fmt.Errorf("write comment: %v", err)
fatalReturn(err) == ErrorfV("write comment", err)

\* a variant that returns a fresh rate-limit error
exhaustedReturn_Zero(abuseError) == ZeroAbuseError

\* a variant that returns nil when the attempts run out
exhaustedReturn_Nil(abuseError) == Nil

\* return abuseError, after the loop
exhaustedReturn(abuseError) == abuseError

\* return fmt.Errorf("delete existing comment %d: %w", *commentId, err)
deleteFailedReturn(commentId, err) ==
    ErrorfW(<<"delete existing comment", commentId>>, err)

\* what the public operation returns for what the connector returned
lineReturn(err) ==
    IF err # Nil THEN ErrorfW("write review comment", err) ELSE Nil

generalReturn(err) == err

\* ------------------------------------------------------------ the provider
\* what a create call can answer: [resp, err], resp the status or NoResp
CreateResponses ==
    { [resp |-> 201, err |-> Nil],
      [resp |-> 422, err |-> ErrorResponse(422)],
      [resp |-> 500, err |-> ErrorResponse(500)],
      [resp |-> NoResp, err |-> TransportError] }

CommentIds(comments) == {comments[k].ID : k \in 1..Len(comments)}

\* what a delete call can answer: a comment that is gone answers 404
DeleteResponses(comments, id) ==
    IF id \in CommentIds(comments)
    THEN { [resp |-> 204, err |-> Nil],
           [resp |-> 422, err |-> ErrorResponse(422)],
           [resp |-> 500, err |-> ErrorResponse(500)],
           [resp |-> NoResp, err |-> TransportError] }
    ELSE { [resp |-> 404, err |-> ErrorResponse(404)] }

RemoveComment(comments, id) == SelectSeq(comments, LAMBDA c : c.ID # id)

PRComment(id, path, body) == [ID |-> id, Path |-> path, Body |-> body]

\* the review comments a pull request may hold before the first session:
\* at most two, no two with the same path and body
InitialPairs == { <<"a.go", "x">>, <<"a.go", "y">>, <<"b.go", "x">> }

InitialRemotes ==
    { <<>> }
    \cup { << PRComment(1, p[1], p[2]) >> : p \in InitialPairs }
    \cup { << PRComment(1, pq[1][1], pq[1][2]), PRComment(2, pq[2][1], pq[2][2]) >> :
             pq \in {x \in InitialPairs \X InitialPairs : x[1] # x[2]} }

\* ------------------------------------------------------------------ state
VARIABLES
    prFiles,      \* the pull request's files as the provider lists them
    remote,       \* the pull request's review comments, in creation order
    issues,       \* the pull request's issue-level comments, in creation order
    nextId,       \* the identifier the provider gives the next review comment
    commenter,    \* per caller: the Commenter (ok, existingComments, files, err)
    pc,           \* per caller: "idle", "delete" or "create"
    op,           \* per caller: the public operation invoked last and its arguments
    block,        \* per caller: the comment payload of the write in progress
    commentId,    \* per caller: the identifier writeCommentIfRequired selected
    i,            \* per caller: the retry loop's attempt index
    abuseError,   \* per caller: the retry loop's recorded rate-limit error
    lastErr,      \* per caller: the error of the callback's last call
    retryRet,     \* per caller: what writeCommentWithRetries returned
    result,       \* per caller: what the public operation returned
    calls,        \* per caller: the remote calls of the operation, in order
    sleeps,       \* per caller: the seconds slept by the operation, in order
    mark,         \* per caller: the provider's comments when the operation began
    again,        \* per caller: the operation repeats the session's previous one,
                  \*             which succeeded
    written,      \* per caller: the (path, body) pairs written in this session
    repeated,     \* some session was asked to write the same pair twice
    faulted,      \* the provider failed a call it could have served
    ops           \* write operations invoked so far

provider == <<prFiles, remote, issues, nextId>>
frame == <<pc, op, block, commentId, i, abuseError, lastErr, retryRet, result,
           calls, sleeps, mark, again>>
vars == <<prFiles, remote, issues, nextId, commenter, pc, op, block, commentId,
          i, abuseError, lastErr, retryRet, result, calls, sleeps, mark, again,
          written, repeated, faulted, ops>>

None == [type |-> "none"]
Pending == [type |-> "pending"]
NoBlock == [Path |-> "", Body |-> "", Line |-> NoLine, StartLine |-> NoLine]
NoCommenter == [ok |-> FALSE, existingComments |-> <<>>, files |-> <<>>, err |-> Nil]
NoOp == [kind |-> "none"]

\* no session exists yet: the state of the callers and of the provider's
\* counters for a pull request holding prFiles and remote
Start(callers) ==
    /\ issues = <<>>
    /\ nextId = Len(remote) + 1
    /\ commenter = [s \in callers |-> NoCommenter]
    /\ pc = [s \in callers |-> "idle"]
    /\ op = [s \in callers |-> NoOp]
    /\ block = [s \in callers |-> NoBlock]
    /\ commentId = [s \in callers |-> NoId]
    /\ i = [s \in callers |-> 0]
    /\ abuseError = [s \in callers |-> ZeroAbuseError]
    /\ lastErr = [s \in callers |-> None]
    /\ retryRet = [s \in callers |-> None]
    /\ result = [s \in callers |-> None]
    /\ calls = [s \in callers |-> <<>>]
    /\ sleeps = [s \in callers |-> <<>>]
    /\ mark = [s \in callers |-> [remote |-> remote, issues |-> <<>>]]
    /\ again = [s \in callers |-> FALSE]
    /\ written = [s \in callers |-> {}]
    /\ repeated = FALSE
    /\ faulted = FALSE
    /\ ops = 0

Init ==
    /\ prFiles \in PRFileSets
    /\ remote \in InitialRemotes
    /\ Start(Callers)

\* NewCommenter: fetch the files, then the existing comments (getPRInfo)
NewCommenter(s) ==
    /\ pc[s] = "idle"
    /\ LET r == getCommitFileInfo(prFiles)
       IN  commenter' = [commenter EXCEPT ![s] =
               IF r.err # Nil
               THEN [NoCommenter EXCEPT !.err = r.err]
               ELSE [ok |-> TRUE,
                     existingComments |-> getExistingComments(remote),
                     files |-> r.infos,
                     err |-> Nil]]
    /\ written' = [written EXCEPT ![s] = {}]
    /\ again' = [again EXCEPT ![s] = FALSE]
    /\ op' = [op EXCEPT ![s] = NoOp]
    /\ result' = [result EXCEPT ![s] = None]
    /\ block' = [block EXCEPT ![s] = NoBlock]
    /\ commentId' = [commentId EXCEPT ![s] = NoId]
    /\ i' = [i EXCEPT ![s] = 0]
    /\ abuseError' = [abuseError EXCEPT ![s] = ZeroAbuseError]
    /\ lastErr' = [lastErr EXCEPT ![s] = None]
    /\ retryRet' = [retryRet EXCEPT ![s] = None]
    /\ calls' = [calls EXCEPT ![s] = <<>>]
    /\ sleeps' = [sleeps EXCEPT ![s] = <<>>]
    /\ mark' = [mark EXCEPT ![s] = [remote |-> remote, issues |-> issues]]
    /\ UNCHANGED <<provider, pc, repeated, faulted, ops>>

\* operation o repeats the session's previous operation, which succeeded
Repeats(s, o) == op[s] = o /\ result[s] = Nil

\* a public operation begins: its local part has run and gave outcome
Begin(s, o, outcome) ==
    /\ pc[s] = "idle"
    /\ commenter[s].ok
    /\ ops < MaxOps
    /\ ops' = ops + 1
    /\ op' = [op EXCEPT ![s] = o]
    /\ again' = [again EXCEPT ![s] = Repeats(s, o)]
    /\ mark' = [mark EXCEPT ![s] = [remote |-> remote, issues |-> issues]]
    /\ calls' = [calls EXCEPT ![s] = <<>>]
    /\ sleeps' = [sleeps EXCEPT ![s] = <<>>]
    /\ i' = [i EXCEPT ![s] = 0]
    /\ abuseError' = [abuseError EXCEPT ![s] = ZeroAbuseError]
    /\ lastErr' = [lastErr EXCEPT ![s] = None]
    /\ retryRet' = [retryRet EXCEPT ![s] = None]
    /\ IF outcome.err # Nil
       THEN /\ result' = [result EXCEPT ![s] = outcome.err]
            /\ block' = [block EXCEPT ![s] = NoBlock]
            /\ commentId' = [commentId EXCEPT ![s] = NoId]
            /\ UNCHANGED <<pc, written, repeated>>
       ELSE LET id == selectCommentId(commenter[s].existingComments, outcome.block)
                pair == <<outcome.block.Path, outcome.block.Body>>
            IN  /\ result' = [result EXCEPT ![s] = Pending]
                /\ block' = [block EXCEPT ![s] = outcome.block]
                /\ commentId' = [commentId EXCEPT ![s] = id]
                /\ pc' = [pc EXCEPT ![s] = IF id # NoId THEN "delete" ELSE "create"]
                /\ written' = [written EXCEPT ![s] = @ \cup {pair}]
                /\ repeated' = (repeated \/ pair \in written[s])
    /\ UNCHANGED <<provider, commenter, faulted>>

WriteLineComment(s, file, comment, line) ==
    Begin(s,
          [kind |-> "WriteLineComment", file |-> file, comment |-> comment,
           startLine |-> line, endLine |-> line],
          lineComment(commenter[s].files, file, comment, line))

WriteMultiLineComment(s, file, comment, startLine, endLine) ==
    Begin(s,
          [kind |-> "WriteMultiLineComment", file |-> file, comment |-> comment,
           startLine |-> startLine, endLine |-> endLine],
          multiLineComment(commenter[s].files, file, comment, startLine, endLine))

\* WriteGeneralComment: straight to connector.writeGeneralComment
WriteGeneralComment(s, comment) ==
    /\ pc[s] = "idle"
    /\ commenter[s].ok
    /\ ops < MaxOps
    /\ ops' = ops + 1
    /\ op' = [op EXCEPT ![s] =
                [kind |-> "WriteGeneralComment", file |-> "", comment |-> comment,
                 startLine |-> NoLine, endLine |-> NoLine]]
    /\ again' = [again EXCEPT ![s] = FALSE]
    /\ mark' = [mark EXCEPT ![s] = [remote |-> remote, issues |-> issues]]
    /\ calls' = [calls EXCEPT ![s] = <<>>]
    /\ sleeps' = [sleeps EXCEPT ![s] = <<>>]
    /\ i' = [i EXCEPT ![s] = 0]
    /\ abuseError' = [abuseError EXCEPT ![s] = ZeroAbuseError]
    /\ lastErr' = [lastErr EXCEPT ![s] = None]
    /\ retryRet' = [retryRet EXCEPT ![s] = None]
    /\ result' = [result EXCEPT ![s] = Pending]
    /\ block' = [block EXCEPT ![s] = NoBlock]
    /\ commentId' = [commentId EXCEPT ![s] = NoId]
    /\ pc' = [pc EXCEPT ![s] = "create"]
    /\ UNCHANGED <<provider, commenter, written, repeated, faulted>>

\* what the public operation in progress returns for the connector's err
Return(s, err) ==
    IF op[s].kind = "WriteGeneralComment" THEN generalReturn(err) ELSE lineReturn(err)

\* a variant that looks the comment up again and skips the delete when it is gone
DeleteComment_SkipIfGone(s) ==
    /\ pc[s] = "delete"
    /\ IF commentId[s] \notin CommentIds(remote)
       THEN /\ pc' = [pc EXCEPT ![s] = "create"]
            /\ UNCHANGED <<calls, faulted, result, remote>>
       ELSE \E r \in DeleteResponses(remote, commentId[s]) :
            /\ calls' = [calls EXCEPT ![s] =
                            Append(@, [call |-> "DeleteComment", id |-> commentId[s],
                                       resp |-> r.resp])]
            /\ faulted' = (faulted \/ r.err # Nil)
            /\ IF r.err # Nil
               THEN /\ result' = [result EXCEPT ![s] =
                                    Return(s, deleteFailedReturn(commentId[s], r.err))]
                    /\ pc' = [pc EXCEPT ![s] = "idle"]
                    /\ UNCHANGED remote
               ELSE /\ remote' = RemoveComment(remote, commentId[s])
                    /\ pc' = [pc EXCEPT ![s] = "create"]
                    /\ UNCHANGED result
    /\ UNCHANGED <<prFiles, issues, nextId, commenter, op, block, commentId, i,
                   abuseError, lastErr, retryRet, sleeps, mark, again, written,
                   repeated, ops>>

\* a variant that treats a rate-limited delete as the scheduler treats a create
DeleteComment_Retry422(s) ==
    /\ pc[s] = "delete"
    /\ \E r \in DeleteResponses(remote, commentId[s]) :
        /\ calls' = [calls EXCEPT ![s] =
                        Append(@, [call |-> "DeleteComment", id |-> commentId[s],
                                   resp |-> r.resp])]
        /\ faulted' = (faulted \/ (r.err # Nil /\ commentId[s] \in CommentIds(remote)))
        /\ IF r.resp = 422 /\ Len(calls[s]) + 1 < githubAbuseErrorRetries
           THEN UNCHANGED <<result, pc, remote>>
           ELSE IF r.err # Nil
           THEN /\ result' = [result EXCEPT ![s] =
                                Return(s, deleteFailedReturn(commentId[s], r.err))]
                /\ pc' = [pc EXCEPT ![s] = "idle"]
                /\ UNCHANGED remote
           ELSE /\ remote' = RemoveComment(remote, commentId[s])
                /\ pc' = [pc EXCEPT ![s] = "create"]
                /\ UNCHANGED result
    /\ UNCHANGED <<prFiles, issues, nextId, commenter, op, block, commentId, i,
                   abuseError, lastErr, retryRet, sleeps, mark, again, written,
                   repeated, ops>>

\* writeReviewComment, the delete of the selected comment (commentId != nil)
DeleteComment(s) ==
    /\ pc[s] = "delete"
    /\ \E r \in DeleteResponses(remote, commentId[s]) :
        /\ calls' = [calls EXCEPT ![s] =
                        Append(@, [call |-> "DeleteComment", id |-> commentId[s],
                                   resp |-> r.resp])]
        /\ faulted' = (faulted \/ (r.err # Nil /\ commentId[s] \in CommentIds(remote)))
        /\ IF r.err # Nil
           THEN /\ result' = [result EXCEPT ![s] =
                                Return(s, deleteFailedReturn(commentId[s], r.err))]
                /\ pc' = [pc EXCEPT ![s] = "idle"]
                /\ UNCHANGED remote
           ELSE /\ remote' = RemoveComment(remote, commentId[s])
                /\ pc' = [pc EXCEPT ![s] = "create"]
                /\ UNCHANGED result
    /\ UNCHANGED <<prFiles, issues, nextId, commenter, op, block, commentId, i,
                   abuseError, lastErr, retryRet, sleeps, mark, again, written,
                   repeated, ops>>

\* the create call the callback of the operation in progress makes
createCall(s) ==
    IF op[s].kind = "WriteGeneralComment" THEN "IssueCreateComment" ELSE "CreateComment"

\* a variant that adds the general comment to the review comments
Created_AsReviewComment(s) ==
    LET path == IF op[s].kind = "WriteGeneralComment" THEN "" ELSE block[s].Path
        body == IF op[s].kind = "WriteGeneralComment" THEN op[s].comment ELSE block[s].Body
    IN  /\ remote' = Append(remote, PRComment(nextId, path, body))
        /\ nextId' = nextId + 1
        /\ UNCHANGED issues

\* the provider serves a create call of the operation in progress
Created(s) ==
    IF op[s].kind = "WriteGeneralComment"
    THEN /\ issues' = Append(issues, op[s].comment)
         /\ UNCHANGED <<remote, nextId>>
    ELSE /\ remote' = Append(remote, PRComment(nextId, block[s].Path, block[s].Body))
         /\ nextId' = nextId + 1
         /\ UNCHANGED issues

\* writeCommentWithRetries, one iteration of its loop: sleep, call, decide
CreateComment(s) ==
    /\ pc[s] = "create"
    /\ i[s] < githubAbuseErrorRetries
    /\ sleeps' = [sleeps EXCEPT ![s] = Append(@, retrySeconds(i[s]))]
    /\ \E r \in CreateResponses :
        /\ calls' = [calls EXCEPT ![s] =
                        Append(@, [call |-> createCall(s), id |-> NoId,
                                   resp |-> r.resp])]
        /\ lastErr' = [lastErr EXCEPT ![s] = r.err]
        /\ faulted' = (faulted \/ r.err # Nil)
        /\ IF r.err = Nil
           THEN /\ Created(s)
                /\ retryRet' = [retryRet EXCEPT ![s] = Nil]
                /\ result' = [result EXCEPT ![s] = Return(s, Nil)]
                /\ pc' = [pc EXCEPT ![s] = "idle"]
                /\ UNCHANGED <<i, abuseError>>
           ELSE IF isAbuseResponse(r)
           THEN LET e == newAbuseRateLimitError(retrySeconds(i[s]))
                IN  /\ abuseError' = [abuseError EXCEPT ![s] = e]
                    /\ i' = [i EXCEPT ![s] = @ + 1]
                    /\ IF i[s] + 1 < githubAbuseErrorRetries
                       THEN UNCHANGED <<retryRet, result, pc>>
                       ELSE /\ retryRet' = [retryRet EXCEPT ![s] = exhaustedReturn(e)]
                            /\ result' = [result EXCEPT ![s] =
                                            Return(s, exhaustedReturn(e))]
                            /\ pc' = [pc EXCEPT ![s] = "idle"]
                    /\ UNCHANGED <<remote, issues, nextId>>
           ELSE /\ retryRet' = [retryRet EXCEPT ![s] = fatalReturn(r.err)]
                /\ result' = [result EXCEPT ![s] = Return(s, fatalReturn(r.err))]
                /\ pc' = [pc EXCEPT ![s] = "idle"]
                /\ UNCHANGED <<remote, issues, nextId, i, abuseError>>
    /\ UNCHANGED <<prFiles, commenter, op, block, commentId, mark, again, written,
                   repeated, ops>>

Next ==
    \E s \in DOMAIN pc :
        \/ NewCommenter(s)
        \/ \E file \in FileNames, comment \in Bodies, line \in Lines :
              WriteLineComment(s, file, comment, line)
        \/ \E file \in FileNames, comment \in Bodies, startLine \in Lines, endLine \in Lines :
              WriteMultiLineComment(s, file, comment, startLine, endLine)
        \/ \E comment \in Bodies : WriteGeneralComment(s, comment)
        \/ DeleteComment(s)
        \/ CreateComment(s)

Spec == Init /\ [][Next]_vars

\* ------------------------------------------------- the parser on its own
\* patch texts: none, no header, a header with start and count (alone or
\* followed by a second hunk), a header without count, a header that is not
\* the first line
ParserPatches ==
    { <<>>, <<TextLine>> }
    \cup { <<HunkHeader(st, ct)>> : st \in 0..3, ct \in 0..3 }
    \cup { <<HunkHeader(st, ct), TextLine, HunkHeader(9, 4), TextLine>> :
              st \in 0..3, ct \in 0..3 }
    \cup { <<HunkHeaderNoCount(st)>> : st \in 0..3 }
    \cup { <<TextLine, HunkHeader(st, ct)>> : st \in 0..3, ct \in 0..3 }

ParserFiles ==
    { CommitFile("a.go", status, patch, changes, url) :
        status \in {"modified", "deleted"}, patch \in ParserPatches,
        changes \in 0..2, url \in {<<>>, <<"sha1">>, <<"sha1", "sha2">>} }

\* a second file after it: parsed well, without patch, without ref, deleted
ParserSecondFiles ==
    { CommitFile("b.go", "added", <<HunkHeader(1, 3), TextLine>>, 3, <<"sha1">>),
      CommitFile("b.go", "modified", <<>>, 0, <<"sha1">>),
      CommitFile("b.go", "renamed", <<>>, 1, <<>>),
      CommitFile("b.go", "deleted", <<>>, 2, <<"sha1">>) }

ParserFileSets ==
    { <<f>> : f \in ParserFiles }
    \cup { <<f, g>> : f \in ParserFiles, g \in ParserSecondFiles }

InitParser ==
    /\ prFiles \in ParserFileSets
    /\ remote = <<>>
    /\ Start(Callers)

NextParser == \E s \in DOMAIN pc : NewCommenter(s)

SpecParser == InitParser /\ [][NextParser]_vars

\* ------------------------------------------------- two concurrent callers
\* two callers, each with a session of its own, write the same comment to
\* line 2 of a.go of the same pull request; their remote calls interleave
\* freely
ConcurrentCallers == {1, 2}

InitConc ==
    /\ prFiles = FilesGood
    /\ remote \in InitialRemotes
    /\ Start(ConcurrentCallers)

NextConc ==
    \E s \in DOMAIN pc :
        \/ NewCommenter(s)
        \/ WriteLineComment(s, "a.go", "x", 2)
        \/ DeleteComment(s)
        \/ CreateComment(s)

SpecConc == InitConc /\ [][NextConc]_vars

\* ---------------------------------------------- the scheduler, scheduled
\* one caller's writes with every started call of writeCommentWithRetries
\* carried on: time.Sleep and the callback return, so the loop takes its
\* next step
InitRetry ==
    /\ prFiles = FilesGood
    /\ remote \in {r \in InitialRemotes : Len(r) <= 1}
    /\ Start(Callers)

NextRetry ==
    \E s \in DOMAIN pc :
        \/ NewCommenter(s)
        \/ \E comment \in Bodies : WriteLineComment(s, "a.go", comment, 2)
        \/ \E comment \in Bodies : WriteGeneralComment(s, comment)
        \/ DeleteComment(s)
        \/ CreateComment(s)

SpecRetry ==
    InitRetry /\ [][NextRetry]_vars /\ \A s \in Callers : WF_vars(CreateComment(s))

\* ----------------------------------------------------- reading the state
\* the last public operation of caller s has returned
Done(s) == pc[s] = "idle" /\ op[s].kind # "none"

IsLineOp(s) == op[s].kind \in {"WriteLineComment", "WriteMultiLineComment"}

\* the create calls of the operation, in order
CreateCalls(s) ==
    SelectSeq(calls[s], LAMBDA c : c.call \in {"CreateComment", "IssueCreateComment"})

DeleteCalls(s) == SelectSeq(calls[s], LAMBDA c : c.call = "DeleteComment")

\* how many comments of a list have this path and body
PairCount(comments, path, body) ==
    Cardinality({k \in 1..Len(comments) :
                    comments[k].Path = path /\ comments[k].Body = body})

NoDuplicatePair(comments) ==
    \A j, k \in 1..Len(comments) :
        (comments[j].Path = comments[k].Path /\ comments[j].Body = comments[k].Body)
            => j = k

SamePairs(c1, c2) ==
    \A path \in FileNames, body \in Bodies :
        PairCount(c1, path, body) = PairCount(c2, path, body)

\* the session's existing comments that have the payload's path and body
Matching(s) ==
    {k \in 1..Len(commenter[s].existingComments) :
        /\ commenter[s].existingComments[k].filename = block[s].Path
        /\ commenter[s].existingComments[k].comment = block[s].Body}

MatchingIds(s) == {commenter[s].existingComments[k].commentId : k \in Matching(s)}

\* the session holds a change range of this file with the line in it
InRange(s, file, line) ==
    \E k \in 1..Len(commenter[s].files) :
        /\ commenter[s].files[k].FileName = file
        /\ commenter[s].files[k].hunkStart <= line
        /\ line <= commenter[s].files[k].hunkEnd

RECURSIVE SumSeq(_)
SumSeq(q) == IF q = <<>> THEN 0 ELSE Head(q) + SumSeq(Tail(q))

\* ------------------------------------------------------------------ claims

\* C1: while every remote call succeeds and no session is asked to write the
\* same (path, body) pair twice, the pull request never holds two review
\* comments with the same path and body.
C1_NoDuplicateAcrossRuns ==
    (~faulted /\ ~repeated) => NoDuplicatePair(remote)

\* C2: a line or multi-line write that repeats the session's previous,
\* successful write with the same arguments succeeds too and leaves the pull
\* request with the same (path, body) comments, each as often as before.
C2_IdempotentInSession ==
    \A s \in DOMAIN pc :
        (Done(s) /\ again[s] /\ ~faulted)
            => (result[s] = Nil /\ SamePairs(remote, mark[s].remote))

\* C3: the identifier handed to the write path is absent when no existing
\* comment has the candidate's path and body, and is the matching comment's
\* identifier when exactly one has, wherever it sits in the list.
C3_ReconciliationResult ==
    \A s \in DOMAIN pc :
        block[s] # NoBlock
            => /\ Matching(s) = {} => commentId[s] = NoId
               /\ Cardinality(Matching(s)) = 1 => commentId[s] \in MatchingIds(s)

\* C4: when the session holds an existing comment with the candidate's path
\* and body, the write's first create call comes after a delete call for such
\* a comment's identifier; when it holds none, the write makes no delete call.
C4_DeleteBeforeCreate ==
    \A s \in DOMAIN pc :
        block[s] # NoBlock
            => /\ (Matching(s) # {} /\ CreateCalls(s) # <<>>)
                    => /\ calls[s][1].call = "DeleteComment"
                       /\ calls[s][1].id \in MatchingIds(s)
               /\ Matching(s) = {} => DeleteCalls(s) = <<>>

\* the operation invoked last names a line outside the file's change range
InvalidTarget(s) ==
    \/ /\ op[s].kind = "WriteLineComment"
       /\ ~InRange(s, op[s].file, op[s].startLine)
    \/ /\ op[s].kind = "WriteMultiLineComment"
       /\ \/ ~InRange(s, op[s].file, op[s].startLine)
          \/ ~InRange(s, op[s].file, op[s].endLine)

\* C5: a line write whose line, or a multi-line write one of whose endpoints,
\* is outside the named file's change range (or names a file the session does
\* not hold) returns the invalid-target error at once, with no remote call
\* made and the pull request left as it was.
C5_FailFast ==
    \A s \in DOMAIN pc :
        InvalidTarget(s)
            => /\ pc[s] = "idle"
               /\ result[s].type = "CommentNotValidError"
               /\ calls[s] = <<>>
               /\ remote = mark[s].remote
               /\ issues = mark[s].issues

C5_Witness ==
    \E s \in DOMAIN pc :
        /\ op[s].kind = "WriteMultiLineComment"
        /\ InRange(s, op[s].file, op[s].startLine)
        /\ ~InRange(s, op[s].file, op[s].endLine)
        /\ result[s].type = "CommentNotValidError"

\* C6: the scheduler sleeps i*i seconds before attempt i (0, 1, 4, 9, 16, 25,
\* one sleep per call), and when every call reported status 422 it returns
\* only after exactly 6 calls, with the rate-limit error recorded last.
C6_RetryExhaustion ==
    \A s \in DOMAIN pc :
        /\ Len(sleeps[s]) = Len(CreateCalls(s))
        /\ sleeps[s] = SubSeq(<<0, 1, 4, 9, 16, 25>>, 1, Len(sleeps[s]))
        /\ (/\ retryRet[s] # None
            /\ \A k \in 1..Len(CreateCalls(s)) : CreateCalls(s)[k].resp = 422)
              => /\ Len(CreateCalls(s)) = 6
                 /\ sleeps[s] = <<0, 1, 4, 9, 16, 25>>
                 /\ retryRet[s].type = "AbuseRateLimitError"
                 /\ retryRet[s] = abuseError[s]

C6_Witness ==
    \E s \in DOMAIN pc :
        /\ retryRet[s].type = "AbuseRateLimitError"
        /\ Len(CreateCalls(s)) = 6
        /\ \A k \in 1..6 : CreateCalls(s)[k].resp = 422

\* C7: every call before the last reported status 422; after a call that
\* succeeded the scheduler has returned success, and after a call that failed
\* otherwise (with another status or with no response) it has returned an
\* error that is not the rate-limit error; so no call follows either.
C7_StoppingRule ==
    \A s \in DOMAIN pc :
        LET c == CreateCalls(s)
            n == Len(c)
        IN  /\ n <= 6
            /\ \A k \in 1..(n - 1) : c[k].resp = 422
            /\ (n > 0 /\ c[n].resp = 201)
                  => (pc[s] = "idle" /\ retryRet[s] = Nil /\ result[s] = Nil)
            /\ (n > 0 /\ c[n].resp \notin {201, 422})
                  => /\ pc[s] = "idle"
                     /\ retryRet[s] \notin {None, Nil}
                     /\ retryRet[s].type # "AbuseRateLimitError"
                     /\ result[s] \notin {None, Nil, Pending}

C7_Witness ==
    \E s \in DOMAIN pc :
        /\ Len(CreateCalls(s)) = 3
        /\ CreateCalls(s)[1].resp = 422
        /\ CreateCalls(s)[2].resp = 422
        /\ CreateCalls(s)[3].resp = 201
        /\ retryRet[s] = Nil

\* the scheduler returned the rate-limit error
Exhausted(s) == retryRet[s].type = "AbuseRateLimitError"

\* C8 as stated: the rate-limit error returned after 6 rate-limited attempts
\* carries the sum of all the sleeps of the call, 55 seconds.
C8_TotalElapsed ==
    \A s \in DOMAIN pc :
        Exhausted(s)
            => /\ retryRet[s].seconds = SumSeq(sleeps[s])
               /\ retryRet[s].seconds = 55

\* C8 as amended: the rate-limit error returned after 6 rate-limited attempts
\* carries the sleep before the last attempt alone, 25 seconds.
C8_LastDelay ==
    \A s \in DOMAIN pc :
        Exhausted(s)
            => /\ retryRet[s].seconds = sleeps[s][Len(sleeps[s])]
               /\ retryRet[s].seconds = 25

C8_Witness ==
    \E s \in DOMAIN pc : Exhausted(s) /\ Len(sleeps[s]) = 6

\* the callback's last call failed and not with the rate-limit status
FatalFailure(s) ==
    /\ retryRet[s] # None
    /\ \/ lastErr[s].type = "TransportError"
       \/ lastErr[s].type = "ErrorResponse" /\ lastErr[s].status # 422

\* C9 as stated: after a non-rate-limit failure the scheduler returns the
\* callback's error itself.
C9_ErrorUnmodified ==
    \A s \in DOMAIN pc : FatalFailure(s) => retryRet[s] = lastErr[s]

\* C9 as amended: after a non-rate-limit failure the scheduler returns a new
\* error whose text is "write comment" followed by the callback error's text;
\* it neither is nor wraps the callback's error.
C9_ErrorReworded ==
    \A s \in DOMAIN pc :
        FatalFailure(s)
            => /\ retryRet[s].type = "errorString"
               /\ DOMAIN retryRet[s] = {"type", "text"}
               /\ Head(retryRet[s].text) = "write comment"
               /\ Tail(retryRet[s].text) = ErrorText(lastErr[s])
               /\ retryRet[s] # lastErr[s]

C9_Witness ==
    \E s \in DOMAIN pc : FatalFailure(s) /\ lastErr[s].type = "ErrorResponse"

\* the create calls of the operation the provider served
ServedCreates(s) == SelectSeq(CreateCalls(s), LAMBDA c : c.resp = 201)

\* the review comments the pull request gained since the operation began
NewComments(s) == CommentIds(remote) \ CommentIds(mark[s].remote)

\* C10: an operation returns success exactly when one of its create calls was
\* served (no operation has two served), then the pull request has gained
\* exactly one comment and, had a comment been selected for replacement, the
\* delete of it was served first; an operation that returns an error has
\* added no comment.
C10_NoPartialSuccess ==
    \A s \in DOMAIN pc :
        Done(s)
            => /\ Len(ServedCreates(s)) <= 1
               /\ result[s] = Nil <=> Len(ServedCreates(s)) = 1
               /\ result[s] = Nil
                    => /\ Cardinality(NewComments(s))
                            + (Len(issues) - Len(mark[s].issues)) = 1
                       /\ commentId[s] # NoId
                            => /\ calls[s][1] = [call |-> "DeleteComment",
                                                 id |-> commentId[s], resp |-> 204]
                               /\ calls[s][2].call = "CreateComment"
               /\ result[s] # Nil
                    => /\ NewComments(s) = {}
                       /\ issues = mark[s].issues

C10_Witness ==
    \E s \in DOMAIN pc :
        /\ Done(s)
        /\ result[s] = Nil
        /\ commentId[s] # NoId
        /\ Len(CreateCalls(s)) = 2

\* C11: a line write is rejected with the invalid-target error exactly when
\* the session holds no change range of the named file with the line in it;
\* a line that is in such a range is never rejected by any later lookup.
C11_TargetValidation ==
    \A s \in DOMAIN pc :
        op[s].kind = "WriteLineComment"
            => /\ result[s].type = "CommentNotValidError"
                    <=> ~InRange(s, op[s].file, op[s].startLine)
               /\ InRange(s, op[s].file, op[s].startLine)
                    => /\ block[s] # NoBlock
                       /\ block[s].Line = op[s].startLine
                       /\ block[s].Path = op[s].file

C11_Witness ==
    \E s \in DOMAIN pc :
        /\ op[s].kind = "WriteLineComment"
        /\ op[s].file = "a.go"
        /\ op[s].startLine = 3
        /\ InRange(s, "a.go", 3)
        /\ ~InRange(s, "a.go", 1)
        /\ result[s] = Nil

\* C12: a multi-line write whose two lines are the same line n does what the
\* line write of n does in the same session: it returns the same error
\* without a remote call, or it goes on with the same payload (no start line
\* attached) and the same comment selected for replacement, so with the same
\* remote calls.
C12_SpanOfLengthOne ==
    \A s \in DOMAIN pc :
        (op[s].kind = "WriteMultiLineComment" /\ op[s].startLine = op[s].endLine)
            => LET r == lineComment(commenter[s].files, op[s].file,
                                    op[s].comment, op[s].endLine)
               IN  /\ r.err # Nil
                        => /\ result[s] = r.err
                           /\ pc[s] = "idle"
                           /\ calls[s] = <<>>
                   /\ r.err = Nil
                        => /\ block[s] = r.block
                           /\ block[s].StartLine = NoLine
                           /\ commentId[s] =
                                selectCommentId(commenter[s].existingComments, r.block)
                           /\ (commentId[s] = NoId /\ calls[s] # <<>>)
                                => calls[s][1].call # "DeleteComment"
                           /\ (commentId[s] # NoId /\ calls[s] # <<>>)
                                => /\ calls[s][1].call = "DeleteComment"
                                   /\ calls[s][1].id = commentId[s]

C12_Witness ==
    \E s \in DOMAIN pc :
        /\ op[s].kind = "WriteMultiLineComment"
        /\ op[s].startLine = op[s].endLine
        /\ result[s] = Nil
        /\ block[s].Line = op[s].endLine
        /\ block[s].StartLine = NoLine

\* NewCommenter has run for caller s
SetUp(s) == commenter[s].ok \/ commenter[s].err # Nil

\* C13: every change range a session holds has rangeStart <= rangeEnd.
C13_RangeOrdered ==
    \A s \in DOMAIN pc :
        \A k \in 1..Len(commenter[s].files) :
            commenter[s].files[k].hunkStart <= commenter[s].files[k].hunkEnd

\* the patch has a hunk header somewhere
HasHunkHeader(file) ==
    \E k \in 1..Len(file.Patch) : file.Patch[k].kind \in {"hunk", "hunk1"}

\* what the parser is to give for a file whose contents reference resolves
ParsedAsClaimed(file, r) ==
    /\ (Len(file.Patch) >= 1 /\ file.Patch[1].kind = "hunk")
          => /\ r.err = <<>>
             /\ r.info.hunkStart = file.Patch[1].start
             /\ r.info.hunkEnd = file.Patch[1].start + file.Patch[1].count - 1
    /\ (~HasHunkHeader(file) /\ file.Changes >= 1)
          => /\ r.err = <<>>
             /\ r.info.hunkStart = 1
             /\ r.info.hunkEnd = 1
    /\ (~HasHunkHeader(file) /\ file.Changes = 0)
          => r.err = <<"the patch details could not be resolved">>

\* C14: once the session is set up, every file that is not deleted and whose
\* contents reference resolves was parsed to [S, S+C-1] when its patch starts
\* with a hunk header of start S and count C (later headers unused), to [1,1]
\* when it has no header and at least 1 changed line, and to the
\* patch-unresolved error when it has no header and 0 changed lines; the
\* session holds exactly the ranges parsed, in the files' order.
C14_ParserResult ==
    \A s \in DOMAIN pc :
        SetUp(s)
            => LET files == getFilesForPr(prFiles)
               IN  /\ \A k \in 1..Len(files) :
                          files[k].ContentsURL # <<>>
                              => ParsedAsClaimed(files[k], getCommitInfo(files[k]))
                   /\ commenter[s].ok
                        => /\ Len(commenter[s].files) = Len(files)
                           /\ \A k \in 1..Len(files) :
                                 commenter[s].files[k] = getCommitInfo(files[k]).info
                   /\ (\E k \in 1..Len(files) :
                          getCommitInfo(files[k]).err # <<>>) => ~commenter[s].ok

C14_Witness ==
    \E s \in DOMAIN pc :
        /\ commenter[s].ok
        /\ Len(prFiles[1].Patch) = 4
        /\ prFiles[1].Patch[1] = HunkHeader(3, 2)
        /\ commenter[s].files[1].hunkStart = 3
        /\ commenter[s].files[1].hunkEnd = 4

\* the parse errors of the files, in the files' order
ParseErrors(files) ==
    SelectSeq([k \in 1..Len(files) |-> getCommitInfo(files[k]).err],
              LAMBDA e : e # <<>>)

\* C15: setup fails exactly when some file that is not deleted fails to
\* parse; then its one error lists the message of every failed file, also of
\* those after the first, no session exists and no write is ever accepted.
C15_AggregatedSetupFailure ==
    \A s \in DOMAIN pc :
        SetUp(s)
            => LET errs == ParseErrors(getFilesForPr(prFiles))
               IN  /\ commenter[s].ok <=> errs = <<>>
                   /\ ~commenter[s].ok
                        => /\ Len(commenter[s].err.text) = 1 + Len(errs)
                           /\ Tail(commenter[s].err.text) = errs
                           /\ commenter[s].files = <<>>
                           /\ commenter[s].existingComments = <<>>
                           /\ op[s] = NoOp
                           /\ pc[s] = "idle"
                           /\ calls[s] = <<>>
                           /\ remote = mark[s].remote

C15_Witness ==
    \E s \in DOMAIN pc :
        /\ ~commenter[s].ok
        /\ commenter[s].err # Nil
        /\ Tail(commenter[s].err.text) =
              << <<"the patch details could not be resolved">>,
                 <<"the sha details could not be resolved">> >>

\* C16: a general comment is never rejected for its target and selects no
\* comment for replacement, whatever the session holds; it makes no delete
\* call, each of its calls is an issue-level create made after the sleep of
\* its attempt, and it leaves the review comments as they were, adding one
\* issue-level comment with its body exactly when it returns success.
C16_GeneralCommentFrame ==
    \A s \in DOMAIN pc :
        op[s].kind = "WriteGeneralComment"
            => /\ result[s].type # "CommentNotValidError"
               /\ commentId[s] = NoId
               /\ block[s] = NoBlock
               /\ \A k \in 1..Len(calls[s]) : calls[s][k].call = "IssueCreateComment"
               /\ Len(sleeps[s]) = Len(calls[s])
               /\ Len(calls[s]) <= 6
               /\ remote = mark[s].remote
               /\ issues = IF result[s] = Nil
                           THEN Append(mark[s].issues, op[s].comment)
                           ELSE mark[s].issues

C16_Witness ==
    \E s \in DOMAIN pc :
        /\ op[s].kind = "WriteGeneralComment"
        /\ result[s] = Nil
        /\ Len(calls[s]) = 2
        /\ commenter[s].existingComments # <<>>
        /\ issues = <<op[s].comment>>

\* C17: with two callers writing the same (file, body) pair, a write that
\* selected a comment of its session issues the delete for that identifier
\* as its first remote call, whether or not the comment still exists on the
\* remote; so both callers can delete the same identifier, and the delete
\* that finds the comment gone is answered 404.
C17_DeleteNotGuarded ==
    \A s \in DOMAIN pc :
        /\ (IsLineOp(s) /\ commentId[s] # NoId /\ pc[s] # "delete")
              => /\ calls[s] # <<>>
                 /\ calls[s][1].call = "DeleteComment"
                 /\ calls[s][1].id = commentId[s]
        /\ \A k \in 1..Len(calls[s]) :
              (calls[s][k].call = "DeleteComment" /\ calls[s][k].resp = 404)
                  => /\ calls[s][k].id \in MatchingIds(s)
                     /\ calls[s][k].id \notin CommentIds(remote)

C17_Witness ==
    /\ op[1] = op[2]
    /\ IsLineOp(1)
    /\ commentId[1] = commentId[2]
    /\ commentId[1] # NoId
    /\ DeleteCalls(1) # <<>>
    /\ DeleteCalls(2) # <<>>
    /\ DeleteCalls(1)[1].resp = 204
    /\ DeleteCalls(2)[1].resp = 404
    /\ DeleteCalls(1)[1].id = DeleteCalls(2)[1].id

\* the error the client returns for a response that is not a success
ResponseError(resp) == IF resp = NoResp THEN TransportError ELSE ErrorResponse(resp)

\* C18: a line write makes at most one delete call, as its first remote call,
\* however often its create is retried; when the delete is not served, with
\* any answer, 422 included, the write has returned the wrapped delete error
\* with no sleep and no create call made.
C18_DeleteOutsideScheduler ==
    \A s \in DOMAIN pc :
        /\ Len(DeleteCalls(s)) <= 1
        /\ \A k \in 1..Len(calls[s]) : calls[s][k].call = "DeleteComment" => k = 1
        /\ (DeleteCalls(s) # <<>> /\ DeleteCalls(s)[1].resp # 204)
              => /\ IsLineOp(s)
                 /\ pc[s] = "idle"
                 /\ result[s] = lineReturn(deleteFailedReturn(commentId[s],
                                    ResponseError(DeleteCalls(s)[1].resp)))
                 /\ result[s] # Nil
                 /\ CreateCalls(s) = <<>>
                 /\ sleeps[s] = <<>>
                 /\ Len(calls[s]) = 1

C18_Witness ==
    \E s \in DOMAIN pc :
        /\ IsLineOp(s)
        /\ Done(s)
        /\ calls[s] = <<[call |-> "DeleteComment", id |-> commentId[s], resp |-> 422]>>
        /\ sleeps[s] = <<>>
        /\ result[s].type = "wrapError"

\* the states of the scheduler: attempting, or returned with one of three results
Attempting(s) == pc[s] = "create"
Success(s) == retryRet[s] = Nil
FatalError(s) == retryRet[s].type = "errorString"
Terminal(s) == retryRet[s] # None

\* the answers of the create calls made so far are all rate-limit failures
AllRateLimited(s) ==
    \A k \in 1..Len(CreateCalls(s)) : CreateCalls(s)[k].resp = 422

\* C19: a started scheduler call, whatever the callback answers, reaches a
\* terminal state, which is exactly one of success, fatal error and
\* exhaustion; it starts at attempt 0, each attempt has index at most 5 and
\* follows rate-limit failures only; exhaustion is returned only after six of
\* them; and a call that has returned makes no further attempt.
C19_RetryTermination ==
    /\ \A s \in Callers : Attempting(s) ~> Terminal(s)
    /\ [](\A s \in Callers :
            /\ Attempting(s)
                 => /\ ~Terminal(s)
                    /\ i[s] = Len(CreateCalls(s))
                    /\ i[s] <= 5
                    /\ AllRateLimited(s)
            /\ Terminal(s)
                 => /\ ~Attempting(s)
                    /\ Success(s) \/ FatalError(s) \/ Exhausted(s)
                    /\ ~(Success(s) /\ FatalError(s))
                    /\ ~(Success(s) /\ Exhausted(s))
                    /\ ~(FatalError(s) /\ Exhausted(s))
                    /\ Len(CreateCalls(s)) <= 6
            /\ Exhausted(s)
                 => /\ Len(CreateCalls(s)) = 6
                    /\ AllRateLimited(s))
    /\ [][\A s \in Callers :
            Terminal(s)
              => \/ retryRet'[s] = retryRet[s] /\ calls'[s] = calls[s]
                 \/ retryRet'[s] = None /\ calls'[s] = <<>>]_vars

C19_Witness ==
    \E s \in Callers :
        /\ Exhausted(s)
        /\ Len(CreateCalls(s)) = 6
        /\ i[s] = 6
        /\ pc[s] = "idle"

\* C20: every span a multi-line write has submitted in a create call has its
\* start line below its end line, both in the session's change range of the
\* file, Line the endLine and StartLine the startLine of the call; a call
\* with startLine above endLine submits no span.
C20_SpanWellFormed ==
    \A s \in DOMAIN pc :
        (/\ op[s].kind = "WriteMultiLineComment"
         /\ block[s].StartLine # NoLine
         /\ CreateCalls(s) # <<>>)
            => /\ block[s].StartLine < block[s].Line
               /\ InRange(s, block[s].Path, block[s].StartLine)
               /\ InRange(s, block[s].Path, block[s].Line)
               /\ block[s].Line = op[s].endLine
               /\ block[s].StartLine = op[s].startLine
               /\ op[s].startLine <= op[s].endLine

====
